---- MODULE Spec2Model ----
(***************************************************************************)
(* Authorization and approval subsystem of the studiotcreative App:        *)
(*   - the AuthProvider's role resolution helpers (isAdmin, isClient,      *)
(*     canApprove, hasAccessToWorkspace),                                  *)
(*   - the AuthProvider's asynchronous load on boot / auth state change,   *)
(*   - PostApproval's handleApprove / handleRequestChanges, which call the *)
(*     approve_post RPC and then insert comment and audit rows.            *)
(*   - PostApproval's rendering of the buttons or the verdict panels,      *)
(*   - the account and post filters of the Calendar and FeedPreview pages. *)
(***************************************************************************)
EXTENDS Naturals, Sequences, FiniteSets, TLC

\* ---------------------------------------------------------------- bounds
MaxMemberships == 2     \* longest membership list drawn as an input
MaxCalls == 2           \* handler invocations per behaviour (all sessions)
MaxReturns == 1         \* returns of a post to sent_to_client per behaviour
MaxEvents == 2          \* auth state change events per behaviour
MaxPosts == 2           \* longest posts query result drawn as an input
MaxRefreshes == 1       \* refresh() calls per behaviour

\* ------------------------------------------------------------- the store
\* JavaScript null: NoUser among user ids, Null among rows and records
NoUser == "none"
Null == [null |-> TRUE]

Workspaces == {"w1", "w2", "w3"}
MembershipRoles == {"account_manager", "client_viewer", "client_approver"}
Users == {"admin", "approver", "mixed"}
Sessions == {"s1", "s2"}
Posts == {"p1", "p2"}
Reasons == {"", "fix the caption"}

\* auth users: the identity provider's record of an account
Email(u) == u \o "@studio.test"

\* public.profiles: one row per account, role is the global role
ProfilesTable ==
  [u \in Users |-> [id |-> u, role |-> IF u = "admin" THEN "admin" ELSE "user"]]

\* public.workspace_members: at most one row per (user_id, workspace_id)
WorkspaceMembersTable ==
  [u \in Users |->
     CASE u = "admin"    -> << >>
       [] u = "approver" -> << [workspace_id |-> "w1", user_id |-> u, role |-> "client_approver"] >>
       [] u = "mixed"    -> << [workspace_id |-> "w1", user_id |-> u, role |-> "client_viewer"],
                               [workspace_id |-> "w2", user_id |-> u, role |-> "client_approver"] >>]

\* public.posts: every post belongs to exactly one workspace
PostWorkspace(p) == IF p = "p1" THEN "w1" ELSE "w2"

VARIABLES
  \* --- AuthProvider state (one browser session)
  user,          \* useState: supabase auth user id, or Null
  profile,       \* useState: public.profiles row, or Null
  memberships,   \* useState: sequence of public.workspace_members rows
  loading,       \* useState: BOOLEAN
  variant,       \* which of the repository's AuthProvider files is mounted
  mounted,       \* isMounted / !ignore / mounted of the effect
  idp,           \* the identity provider's current session user, or NoUser
  loads,         \* sequence of the load() / loadForSession() calls started
  events,        \* auth state change events so far
  \* --- role resolution results (the helpers applied to the held state)
  evaluated,     \* record of the helper results for one workspace, or Null
  \* --- the store's approval tables
  posts,         \* [Posts -> row]
  audit_logs,    \* sequence of rows, in insertion order
  comments,      \* sequence of rows, in insertion order
  now,           \* the store's clock, read for approved_at
  \* --- PostApproval component instances, one per session
  acct,          \* [Sessions -> Users]: the signed-in user of each session
  sess,          \* [Sessions -> record]: position and locals of the running handler
  calls,         \* handler invocations so far
  returns,       \* [Posts -> Nat]: times each post was returned to sent_to_client
  \* --- Calendar / FeedPreview page (one browser session)
  page,          \* which of the two listing pages is mounted, or "none"
  allAccounts,   \* useQuery data of ["accounts"], [] while there is none
  allPosts,      \* useQuery data of ["posts"], [] while there is none
  selected,      \* useState: selectedWorkspace, selectedPlatform, selectedAccount
  listed,        \* useMemo: filteredAccounts and posts of the last render
  \* --- the PostApproval instance of the provider's session
  view           \* its post prop: the posts row as last fetched, or Null

heldVars == <<user, profile, memberships, loading>>
authVars == <<user, profile, memberships, loading, variant, mounted, idp, loads, events>>
storeVars == <<posts, audit_logs, comments, now>>
approvalVars == <<posts, audit_logs, comments, now, acct, sess, calls, returns>>
listingVars == <<page, allAccounts, allPosts, selected, listed>>
pageVars == <<page, allAccounts, allPosts, selected, listed, view>>
vars == <<user, profile, memberships, loading, variant, mounted, idp, loads, events,
          evaluated,
          posts, audit_logs, comments, now, acct, sess, calls, returns,
          page, allAccounts, allPosts, selected, listed, view>>

\* ------------------------------------------------- role resolution helpers
\* mutant: an absent profile resolves to the admin role
globalRoleDefaultAdmin == IF profile = Null THEN "admin" ELSE profile.role

\* const globalRole = profile?.role ?? "user"
globalRole == IF profile = Null THEN "user" ELSE profile.role

\* const isAdmin = () => globalRole === "admin"
isAdmin == globalRole = "admin"

\* const isClient = () => memberships.some(m => client_viewer || client_approver)
isClient ==
  \E i \in 1..Len(memberships) :
     memberships[i].role = "client_viewer" \/ memberships[i].role = "client_approver"

\* mutant: canApprove looks at the memberships only
canApproveMembersOnly(workspaceId) ==
  \E i \in 1..Len(memberships) : memberships[i].role = "client_approver"

\* const canApprove = () => isAdmin() || memberships.some(m => m.role === "client_approver")
\* The function declares no parameter: an argument passed by a caller is ignored.
canApprove(workspaceId) ==
  isAdmin \/ \E i \in 1..Len(memberships) : memberships[i].role = "client_approver"

\* mutant: any membership gives access to every workspace
hasAccessWithAnyMembership(workspaceId) ==
  isAdmin \/ Len(memberships) > 0

\* const hasAccessToWorkspace = (workspaceId) => isAdmin() || memberships.some(...)
hasAccessToWorkspace(workspaceId) ==
  isAdmin \/ \E i \in 1..Len(memberships) : memberships[i].workspace_id = workspaceId

\* components/auth/AuthProvider.jsx derives one userRole and its helpers from it:
\* admin, else account_manager in any workspace, else client_approver, else
\* client_viewer, else 'viewer'
userRole ==
  IF profile # Null /\ profile.role = "admin" THEN "admin"
  ELSE IF \E i \in 1..Len(memberships) : memberships[i].role = "account_manager"
       THEN "account_manager"
  ELSE IF \E i \in 1..Len(memberships) : memberships[i].role = "client_approver"
       THEN "client_approver"
  ELSE IF \E i \in 1..Len(memberships) : memberships[i].role = "client_viewer"
       THEN "client_viewer"
  ELSE "viewer"

\* const isAdmin = () => userRole === 'admin'
isAdminByUserRole == userRole = "admin"
\* const isAccountManager = () => userRole === 'account_manager' || userRole === 'admin'
isAccountManager == userRole = "account_manager" \/ userRole = "admin"
\* const isClient = () => userRole === 'client_viewer' || userRole === 'client_approver'
isClientByUserRole == userRole = "client_viewer" \/ userRole = "client_approver"
\* const canApprove = () => userRole === 'client_approver' || userRole === 'admin'
canApproveByUserRole == userRole = "client_approver" \/ userRole = "admin"

\* ------------------------------------------ role resolution, as a function
\* Inputs of the helpers: any profile row (or none) and any membership list of
\* at most MaxMemberships rows, one row per workspace at most.
ProfileInputs ==
  {Null} \cup {[id |-> u, role |-> r] : u \in {"mixed"}, r \in {"admin", "user"}}

MembershipRows ==
  [workspace_id : Workspaces, user_id : {"mixed"}, role : MembershipRoles]

MembershipLists ==
  UNION {{m \in [1..n -> MembershipRows] :
            \A i, j \in 1..n : i # j => m[i].workspace_id # m[j].workspace_id}
         : n \in 0..MaxMemberships}

\* no listing page mounted
ListingIdle ==
  /\ page = "none"
  /\ allAccounts = << >>
  /\ allPosts = << >>
  /\ selected = Null
  /\ listed = Null
  /\ view = Null

ApprovalIdle ==
  /\ posts = [p \in Posts |-> Null]
  /\ audit_logs = << >>
  /\ comments = << >>
  /\ now = 0
  /\ acct = [s \in Sessions |-> NoUser]
  /\ sess = [s \in Sessions |-> Null]
  /\ calls = 0
  /\ returns = [p \in Posts |-> 0]

\* the provider's asynchronous side at rest: nothing in flight
LoaderIdle ==
  /\ variant = "part_001"
  /\ mounted = TRUE
  /\ idp = NoUser
  /\ loads = << >>
  /\ events = 0

InitRoles ==
  /\ user = "mixed"
  /\ profile \in ProfileInputs
  /\ memberships \in MembershipLists
  /\ loading = FALSE
  /\ LoaderIdle
  /\ evaluated = Null
  /\ ApprovalIdle
  /\ ListingIdle

\* a consumer of useAuth() calls the helpers for one workspace: those of
\* part_001 / Team.jsx, and those components/auth/AuthProvider.jsx derives
\* from userRole
Evaluate(w) ==
  /\ evaluated' = [workspace |-> w,
                   isAdmin |-> isAdmin,
                   isClient |-> isClient,
                   canApprove |-> canApprove(w),
                   hasAccessToWorkspace |-> hasAccessToWorkspace(w),
                   userRole |-> userRole,
                   isAdminByUserRole |-> isAdminByUserRole,
                   isAccountManager |-> isAccountManager,
                   isClientByUserRole |-> isClientByUserRole,
                   canApproveByUserRole |-> canApproveByUserRole]
  /\ UNCHANGED <<authVars, approvalVars, pageVars>>

NextRoles == \E w \in Workspaces : Evaluate(w)

SpecRoles == InitRoles /\ [][NextRoles]_vars

\* ------------------------------------------------- AuthProvider: loading
\* The repository holds three AuthProvider files:
\*   "part_001"      load() reads getSession(), guards with isMounted once
\*   "AuthProvider"  load() reads getUser(), guards with ignore after each await
\*   "Team"          loadForSession(sess) is handed the session by its caller
Variants == {"part_001", "AuthProvider", "Team"}

\* a call of load() / loadForSession(): where it is suspended, and the user
\* id it captured (session.user.id, user.id, sess.user.id).  profileError and
\* membersError record how the two queries of the call that answered last
\* have answered ("pending" otherwise); the loaders never read them.
NewLoad(pc, uid) ==
  [pc |-> pc, uid |-> uid, kind |-> "load",
   profileError |-> "pending", membersError |-> "pending"]

\* a query of call l has answered and the call moves on to pc: the outcome is
\* recorded with call l, the record of the other calls' answers is dropped
Answered(l, pc, query, error) ==
  [k \in 1..Len(loads) |->
     IF k = l
     THEN [loads[l] EXCEPT !.pc = pc, ![query] = IF error THEN "yes" ELSE "no"]
     ELSE [loads[k] EXCEPT !.profileError = "pending", !.membersError = "pending"]]

\* the guard the variant evaluates after the getSession()/getUser() await
\* (Team: in boot, before loadForSession)
GuardAfterIdentity == mounted

\* the guard the variant evaluates after the profiles and members awaits
GuardAfterFetch == IF variant = "AuthProvider" THEN mounted ELSE TRUE

\* setProfile(null); setMemberships([]); setLoading(false)
SignedOutState(u) ==
  /\ user' = u
  /\ profile' = Null
  /\ memberships' = << >>
  /\ loading' = FALSE

\* load() of part_001 and AuthProvider is called: setLoading(true), then it
\* awaits getSession() / getUser()
CallLoad ==
  /\ loading' = TRUE
  /\ loads' = Append(loads, NewLoad("identity", NoUser))

\* loadForSession(sess) of Team is called and runs to its first await
CallLoadForSession(u) ==
  IF u = NoUser
  THEN /\ SignedOutState(NoUser)
       /\ loads' = Append(loads, NewLoad("done", NoUser))
  ELSE /\ user' = u
       /\ loading' = TRUE
       /\ UNCHANGED <<profile, memberships>>
       /\ loads' = Append(loads, NewLoad("profiles", u))

\* supabase.auth.onAuthStateChange fires with the new session
AuthStateChange(u) ==
  /\ mounted
  /\ events < MaxEvents
  /\ events' = events + 1
  /\ idp' = u
  /\ CASE variant = "part_001" ->
            /\ user' = u
            /\ CallLoad
            /\ UNCHANGED <<profile, memberships>>
       [] variant = "AuthProvider" ->
            /\ CallLoad
            /\ UNCHANGED <<user, profile, memberships>>
       [] variant = "Team" -> CallLoadForSession(u)
  /\ UNCHANGED <<variant, mounted, evaluated, approvalVars, pageVars>>

\* the getSession() / getUser() await of call l resumes
IdentityReturns(l) ==
  /\ loads[l].kind = "load"
  /\ loads[l].pc = "identity"
  /\ IF ~GuardAfterIdentity
     THEN /\ loads' = [loads EXCEPT ![l].pc = "done"]
          /\ UNCHANGED heldVars
     ELSE IF variant = "Team"
     THEN \* boot: await loadForSession(data?.session ?? null)
          IF idp = NoUser
          THEN /\ SignedOutState(NoUser)
               /\ loads' = [loads EXCEPT ![l].pc = "done"]
          ELSE /\ user' = idp
               /\ loading' = TRUE
               /\ UNCHANGED <<profile, memberships>>
               /\ loads' = [loads EXCEPT ![l] = NewLoad("profiles", idp)]
     ELSE IF idp = NoUser
          THEN /\ SignedOutState(NoUser)
               /\ loads' = [loads EXCEPT ![l].pc = "done"]
          ELSE /\ user' = idp
               /\ UNCHANGED <<profile, memberships, loading>>
               /\ loads' = [loads EXCEPT ![l] = NewLoad("profiles", idp)]
  /\ UNCHANGED <<variant, mounted, idp, events, evaluated, approvalVars, pageVars>>

\* mutant: on a profiles error the held profile is kept
ProfilesReturnsKeepsOnError(l) ==
  /\ loads[l].pc = "profiles"
  /\ \E error \in BOOLEAN :
       IF ~GuardAfterFetch
       THEN /\ loads' = [loads EXCEPT ![l].pc = "done"]
            /\ UNCHANGED heldVars
       ELSE /\ profile' = IF error THEN profile ELSE ProfilesTable[loads[l].uid]
            /\ loads' = Answered(l, "members", "profileError", error)
            /\ UNCHANGED <<user, memberships, loading>>
  /\ UNCHANGED <<variant, mounted, idp, events, evaluated, approvalVars, pageVars>>

\* the profiles query of call l answers: a row, or an error
ProfilesReturns(l) ==
  /\ loads[l].pc = "profiles"
  /\ \E error \in BOOLEAN :
       IF ~GuardAfterFetch
       THEN /\ loads' = [loads EXCEPT ![l].pc = "done"]
            /\ UNCHANGED heldVars
       ELSE /\ profile' = IF error THEN Null ELSE ProfilesTable[loads[l].uid]
            /\ loads' = Answered(l, "members", "profileError", error)
            /\ UNCHANGED <<user, memberships, loading>>
  /\ UNCHANGED <<variant, mounted, idp, events, evaluated, approvalVars, pageVars>>

\* the workspace_members query of call l answers: rows, or an error
MembersReturns(l) ==
  /\ loads[l].pc = "members"
  /\ \E error \in BOOLEAN :
       IF ~GuardAfterFetch
       THEN /\ loads' = [loads EXCEPT ![l].pc = "done"]
            /\ UNCHANGED heldVars
       ELSE /\ memberships' = IF error THEN << >> ELSE WorkspaceMembersTable[loads[l].uid]
            /\ loading' = FALSE
            /\ loads' = Answered(l, "done", "membersError", error)
            /\ UNCHANGED <<user, profile>>
  /\ UNCHANGED <<variant, mounted, idp, events, evaluated, approvalVars, pageVars>>

\* the effect's cleanup: isMounted = false / ignore = true / mounted = false
Unmount ==
  /\ mounted
  /\ mounted' = FALSE
  /\ UNCHANGED <<heldVars, variant, idp, loads, events, evaluated, approvalVars, pageVars>>

\* useState initial values, then the effect runs: load() / boot() is called
InitAuth ==
  /\ variant \in Variants
  /\ mounted = TRUE
  /\ idp \in Users \cup {NoUser}
  /\ user = NoUser
  /\ profile = Null
  /\ memberships = << >>
  /\ loading = TRUE
  /\ loads = << NewLoad("identity", NoUser) >>
  /\ events = 0
  /\ evaluated = Null
  /\ ApprovalIdle
  /\ ListingIdle

NextAuth ==
  \/ \E u \in Users \cup {NoUser} : AuthStateChange(u)
  \/ \E l \in 1..Len(loads) : IdentityReturns(l)
  \/ \E l \in 1..Len(loads) : ProfilesReturns(l)
  \/ \E l \in 1..Len(loads) : MembersReturns(l)
  \/ Unmount

SpecAuth == InitAuth /\ [][NextAuth]_vars

\* ------------------------------------- AuthProvider: a rejected store call
\* The promise awaited by reload l (getSession / getUser, the profiles query
\* or the workspace_members query) rejects. No loader wraps its awaits in
\* try/catch and no caller catches load(), so the async function ends there
\* and none of the setters after the await runs.
AwaitRejects(l) ==
  /\ loads[l].kind = "load"
  /\ loads[l].pc \in {"identity", "profiles", "members"}
  /\ loads' = [loads EXCEPT ![l].pc = "rejected"]
  /\ UNCHANGED <<heldVars, variant, mounted, idp, events, evaluated, approvalVars, pageVars>>

NextReload ==
  \/ NextAuth
  \/ \E l \in 1..Len(loads) : AwaitRejects(l)

SpecReload == InitAuth /\ [][NextReload]_vars

\* ------------------------------------------------- AuthProvider: refresh()
\* the refresh() calls made so far
Refreshes == {l \in 1..Len(loads) : loads[l].kind = "refresh"}

\* a consumer calls refresh() of the context value; it awaits getSession()
\* (part_001, Team) / getUser() (AuthProvider)
CallRefresh ==
  /\ Cardinality(Refreshes) < MaxRefreshes
  /\ loads' = Append(loads, [NewLoad("identity", NoUser) EXCEPT !.kind = "refresh"])
  /\ UNCHANGED <<heldVars, variant, mounted, idp, events, evaluated, approvalVars, pageVars>>

\* the getSession() / getUser() await of refresh call l resumes: part_001 and
\* AuthProvider set the user and return, Team goes on with loadForSession
RefreshReturns(l) ==
  /\ loads[l].kind = "refresh"
  /\ loads[l].pc = "identity"
  /\ IF variant # "Team"
     THEN /\ user' = idp
          /\ loads' = [loads EXCEPT ![l].pc = "done"]
          /\ UNCHANGED <<profile, memberships, loading>>
     ELSE IF idp = NoUser
          THEN /\ SignedOutState(NoUser)
               /\ loads' = [loads EXCEPT ![l].pc = "done"]
          ELSE /\ user' = idp
               /\ loading' = TRUE
               /\ UNCHANGED <<profile, memberships>>
               /\ loads' = [loads EXCEPT ![l].pc = "profiles", ![l].uid = idp]
  /\ UNCHANGED <<variant, mounted, idp, events, evaluated, approvalVars, pageVars>>

\* The provider at rest after its boot reload: signed out, or signed in with
\* the rows the reload got (null / [] where a query answered with an error).
InitRefresh ==
  /\ variant \in Variants
  /\ mounted = TRUE
  /\ idp \in Users \cup {NoUser}
  /\ user = idp
  /\ profile \in IF idp = NoUser THEN {Null} ELSE {Null, ProfilesTable[idp]}
  /\ memberships \in IF idp = NoUser THEN {<< >>} ELSE {<< >>, WorkspaceMembersTable[idp]}
  /\ loading = FALSE
  /\ loads = << >>
  /\ events = 0
  /\ evaluated = Null
  /\ ApprovalIdle
  /\ ListingIdle

NextRefresh ==
  \/ CallRefresh
  \/ \E l \in 1..Len(loads) : RefreshReturns(l)
  \/ \E l \in 1..Len(loads) : IdentityReturns(l)
  \/ \E l \in 1..Len(loads) : ProfilesReturns(l)
  \/ \E l \in 1..Len(loads) : MembersReturns(l)
  \/ \E u \in Users \cup {NoUser} : AuthStateChange(u)

SpecRefresh == InitRefresh /\ [][NextRefresh]_vars

\* ------------------------------------------------- pages: enabled queries
\* the keys of the context value each provider hands to useAuth()
ContextValue(v) ==
  IF v = "AuthProvider"
  THEN {"user", "profile", "memberships", "userRole", "loading", "isAdmin",
        "isAccountManager", "isClient", "canApprove", "refresh"}
  ELSE {"session", "user", "profile", "memberships", "loading", "globalRole",
        "isAdmin", "isClient", "canApprove", "hasAccessToWorkspace",
        "getClientWorkspaceId", "signOut", "refresh"}

\* const { <key> } = useAuth(), read as a loading flag: a key the value does
\* not have destructures to undefined, which is falsy
LoadingFlag(key) == IF key \in ContextValue(variant) THEN loading ELSE FALSE

\* the useQuery calls of the pages, by page and queryKey
PageQueries ==
  {<<"Workspaces", "workspaces">>,
   <<"Team", "users">>, <<"Team", "workspaces">>, <<"Team", "accounts">>,
   <<"Team", "workspace_members">>,
   <<"Calendar", "workspaces">>, <<"Calendar", "accounts">>, <<"Calendar", "posts">>}

\* the enabled option of each useQuery, from the provider's present value
Enabled(q) ==
  CASE q[1] = "Workspaces" -> ~LoadingFlag("isLoadingAuth") /\ user # NoUser
    [] q[1] = "Team" -> ~LoadingFlag("loading") /\ isAdmin
    [] q = <<"Calendar", "workspaces">> -> ~LoadingFlag("loading") /\ isAdmin
    [] OTHER -> ~LoadingFlag("loading")

\* the queries whose enabled option asks for isAdmin()
AdminOnlyQueries ==
  {q \in PageQueries : q[1] = "Team"} \cup {<<"Calendar", "workspaces">>}

\* ------------------------------------------------------- approve_post (RPC)
\* The workspace-scoped capability the store checks for the calling account.
ServerCanApprove(u, w) ==
  \/ ProfilesTable[u].role = "admin"
  \/ \E i \in 1..Len(WorkspaceMembersTable[u]) :
        /\ WorkspaceMembersTable[u][i].workspace_id = w
        /\ WorkspaceMembersTable[u][i].role = "client_approver"

\* The error approve_post answers with for caller u, "none" when it commits.
ApprovePostError(u, p) ==
  IF ~ServerCanApprove(u, PostWorkspace(p)) THEN "Unauthorized"
  ELSE IF posts[p].status # "sent_to_client" THEN "InvalidState"
  ELSE "none"

\* The row approve_post writes, as one atomic conditional update.
ApprovePostRow(u, p, p_status) ==
  IF p_status = "approved"
  THEN [posts[p] EXCEPT !.status = p_status, !.approval_status = p_status,
                        !.approved_by = Email(u), !.approved_at = now + 1]
  ELSE [posts[p] EXCEPT !.status = p_status, !.approval_status = p_status]

RECURSIVE TotalReturns(_)
TotalReturns(ps) ==
  IF ps = {} THEN 0
  ELSE LET p == CHOOSE q \in ps : TRUE IN returns[p] + TotalReturns(ps \ {p})

\* An account manager starts a new review cycle (outside PostApproval).
ReturnToReview(p) ==
  /\ posts[p].status \in {"approved", "changes_requested"}
  /\ TotalReturns(Posts) < MaxReturns
  /\ posts' = [posts EXCEPT ![p].status = "sent_to_client"]
  /\ returns' = [returns EXCEPT ![p] = @ + 1]
  /\ UNCHANGED <<authVars, evaluated, pageVars, audit_logs, comments, now, acct, sess, calls>>

\* ------------------------------------------------------------ PostApproval
\* mutant: handleApprove passes the other verdict
ApproveStatusSwapped == "changes_requested"

\* handleApprove: mutateAsync({ status: 'approved', reason: null })
ApproveStatus == "approved"
\* handleRequestChanges: mutateAsync({ status: 'changes_requested', ... })
RequestStatus == "changes_requested"

\* mutants: mutationFn drops the error check, for one error or for all
MutationFnIgnoresInvalidState(error) == error \notin {"none", "InvalidState"}
MutationFnIgnoresUnauthorized(error) == error \notin {"none", "Unauthorized"}
MutationFnNeverThrows(error) == FALSE
MutationFnIgnoresTransport(error) == error \notin {"none", "WriteError"}

\* mutationFn: if (error) throw error
MutationFnThrows(error) == error # "none"

\* handleRequestChanges: if (rejectReason) { createComment ... }
CommentWanted(rejectReason) == rejectReason # ""

\* mutant: the comment is inserted as an internal note
CommentRowInternal(p, rejectReason) ==
  [post_id |-> p,
   workspace_id |-> PostWorkspace(p),
   content |-> "Changes requested: " \o rejectReason,
   is_internal |-> TRUE]

\* the row handleRequestChanges hands to createComment
CommentRow(p, rejectReason) ==
  [post_id |-> p,
   workspace_id |-> PostWorkspace(p),
   content |-> "Changes requested: " \o rejectReason,
   is_internal |-> FALSE]

\* mutant: the approver is recorded under another key
ApprovedDetailsNoApprover(u) == [action |-> "Post approved", user |-> Email(u)]

\* details of the audit rows: rejectReason || null, user?.email
ApprovedDetails(u) == [action |-> "Post approved", approved_by |-> Email(u)]
ChangesDetails(rejectReason, u) ==
  [action |-> "Changes requested",
   reason |-> IF rejectReason = "" THEN "null" ELSE rejectReason,
   requested_by |-> Email(u)]

\* mutant: every audit row is filed under one fixed workspace
AuditRowFixedWorkspace(p, action, details) ==
  [workspace_id |-> "w1",
   entity_type |-> "post",
   entity_id |-> p,
   action |-> action,
   details |-> details]

\* createAuditLog: the row inserted into audit_logs
AuditRow(p, action, details) ==
  [workspace_id |-> PostWorkspace(p),
   entity_type |-> "post",
   entity_id |-> p,
   action |-> action,
   details |-> details]

\* A component instance with no handler running.  Fields from statusAtRpc on
\* record what the running call saw and did; the handlers never read them.
SessIdle ==
  [pc |-> "idle", handler |-> "none", op |-> "none", post |-> "none",
   rejectReason |-> "", rpcResult |-> "none", result |-> "none", toasts |-> << >>,
   statusAtStart |-> "none", statusAtRpc |-> "none", approvalAtRpc |-> "none",
   round |-> 0, audits |-> << >>, commentsWritten |-> << >>, commentFailed |-> FALSE]

Running(s) == sess[s].pc \in {"rpc", "comment", "audit"}

\* a handler is entered: its locals as it reaches its first await
Entered(s, h, p, status, reason) ==
  [SessIdle EXCEPT !.pc = "rpc", !.handler = h, !.op = status, !.post = p,
                   !.rejectReason = reason,
                   !.statusAtStart = posts[p].status,
                   !.round = returns[p]]

\* handleApprove runs to updateMutation.mutateAsync({ status: 'approved', reason: null })
handleApprove(s, p) ==
  /\ ~Running(s)
  /\ calls < MaxCalls
  /\ calls' = calls + 1
  /\ sess' = [sess EXCEPT ![s] = Entered(s, "handleApprove", p, ApproveStatus, "")]
  /\ UNCHANGED <<authVars, evaluated, pageVars, storeVars, acct, returns>>

\* handleRequestChanges runs to updateMutation.mutateAsync({ status:
\* 'changes_requested', reason: rejectReason || null })
handleRequestChanges(s, p, reason) ==
  /\ ~Running(s)
  /\ calls < MaxCalls
  /\ calls' = calls + 1
  /\ sess' = [sess EXCEPT ![s] =
       Entered(s, "handleRequestChanges", p, RequestStatus, reason)]
  /\ UNCHANGED <<authVars, evaluated, pageVars, storeVars, acct, returns>>

\* a handler's await rejects: the handler ends there, nothing after it runs
Throw(s, error) ==
  [sess[s] EXCEPT !.pc = "done", !.result = error]

\* mutant: handleApprove returns once the mutation resolved
AfterMutationSkipsAudit(s) ==
  IF sess[s].handler = "handleRequestChanges"
  THEN IF CommentWanted(sess[s].rejectReason) THEN "comment" ELSE "audit"
  ELSE "done"

\* the position after updateMutation.mutateAsync resolved
AfterMutation(s) ==
  IF sess[s].handler = "handleRequestChanges" /\ CommentWanted(sess[s].rejectReason)
  THEN "comment" ELSE "audit"

\* updateMutation: supabase.rpc('approve_post') is served and answers; the
\* call can also fail in transport (WriteError) without reaching the store.
ApprovePostReturns(s) ==
  /\ sess[s].pc = "rpc"
  /\ \E transport \in BOOLEAN :
       LET p == sess[s].post
           error == IF transport THEN "WriteError" ELSE ApprovePostError(acct[s], p)
           seen == [sess[s] EXCEPT !.rpcResult = IF error = "none" THEN "ok" ELSE error,
                                   !.statusAtRpc = posts[p].status,
                                   !.approvalAtRpc = posts[p].approval_status,
                                   !.round = returns[p]]
       IN /\ IF error = "none"
             THEN /\ posts' = [posts EXCEPT ![p] = ApprovePostRow(acct[s], p, sess[s].op)]
                  /\ now' = now + 1
             ELSE UNCHANGED <<posts, now>>
          /\ sess' = [sess EXCEPT ![s] =
               IF MutationFnThrows(error)
               THEN [seen EXCEPT !.pc = "done", !.result = error]
               ELSE [seen EXCEPT !.pc = AfterMutation(s),
                                 !.toasts = Append(@, "Post updated")]]
  /\ UNCHANGED <<authVars, evaluated, pageVars, audit_logs, comments, acct, calls, returns>>

\* createComment: supabase.from('comments').insert answers
CreateCommentReturns(s) ==
  /\ sess[s].pc = "comment"
  /\ \E transport \in BOOLEAN :
       IF transport
       THEN /\ sess' = [sess EXCEPT ![s] =
                 [Throw(s, "WriteError") EXCEPT !.commentFailed = TRUE]]
            /\ UNCHANGED comments
       ELSE /\ comments' = Append(comments, CommentRow(sess[s].post, sess[s].rejectReason))
            /\ sess' = [sess EXCEPT ![s].pc = "audit",
                                    ![s].commentsWritten = Append(@,
                                       CommentRow(sess[s].post, sess[s].rejectReason))]
  /\ UNCHANGED <<authVars, evaluated, pageVars, posts, audit_logs, now, acct, calls, returns>>

\* the createAuditLog call of the running handler
HandlerAuditRow(s) ==
  IF sess[s].handler = "handleApprove"
  THEN AuditRow(sess[s].post, "approved", ApprovedDetails(acct[s]))
  ELSE AuditRow(sess[s].post, "changes_requested",
                ChangesDetails(sess[s].rejectReason, acct[s]))

\* mutant: the row is upserted on its entity, replacing the entity's last row
UpsertAuditLog(row) ==
  IF \E i \in 1..Len(audit_logs) : audit_logs[i].entity_id = row.entity_id
  THEN LET i == CHOOSE j \in 1..Len(audit_logs) : audit_logs[j].entity_id = row.entity_id
       IN [audit_logs EXCEPT ![i] = row]
  ELSE Append(audit_logs, row)

\* supabase.from('audit_logs').insert([row]): the table after the insert
InsertAuditLog(row) == Append(audit_logs, row)

\* mutant: createAuditLog also stamps the post row with the acting account
CreateAuditLogStampsPost(s) ==
  /\ sess[s].pc = "audit"
  /\ audit_logs' = InsertAuditLog(HandlerAuditRow(s))
  /\ posts' = [posts EXCEPT ![sess[s].post].approved_by = Email(acct[s]) \o " (logged)"]
  /\ sess' = [sess EXCEPT ![s].pc = "done", ![s].result = "ok",
                          ![s].audits = Append(@, HandlerAuditRow(s))]
  /\ UNCHANGED <<authVars, evaluated, pageVars, comments, now, acct, calls, returns>>

\* createAuditLog: supabase.from('audit_logs').insert answers; then the
\* handler's last statements (reset the dialog, toast)
CreateAuditLogReturns(s) ==
  /\ sess[s].pc = "audit"
  /\ \E transport \in BOOLEAN :
       IF transport
       THEN /\ sess' = [sess EXCEPT ![s] = Throw(s, "WriteError")]
            /\ UNCHANGED audit_logs
       ELSE /\ audit_logs' = InsertAuditLog(HandlerAuditRow(s))
            /\ sess' = [sess EXCEPT ![s].pc = "done", ![s].result = "ok",
                                    ![s].audits = Append(@, HandlerAuditRow(s)),
                                    ![s].toasts = Append(@,
                                       IF sess[s].handler = "handleApprove"
                                       THEN "Post approved!" ELSE "Changes requested")]
  /\ UNCHANGED <<authVars, evaluated, pageVars, posts, comments, now, acct, calls, returns>>

PostRows ==
  [status : {"draft", "sent_to_client"}, approval_status : {"none"},
   approved_by : {"none"}, approved_at : {0}]

Init ==
  /\ user = NoUser
  /\ profile = Null
  /\ memberships = << >>
  /\ loading = FALSE
  /\ LoaderIdle
  /\ evaluated = Null
  /\ posts \in [Posts -> PostRows]
  /\ audit_logs = << >>
  /\ comments = << >>
  /\ now = 0
  /\ acct \in [Sessions -> Users]
  /\ sess = [s \in Sessions |-> SessIdle]
  /\ calls = 0
  /\ returns = [p \in Posts |-> 0]
  /\ ListingIdle

Next ==
  \/ \E s \in Sessions, p \in Posts : handleApprove(s, p)
  \/ \E s \in Sessions, p \in Posts, reason \in Reasons : handleRequestChanges(s, p, reason)
  \/ \E s \in Sessions : ApprovePostReturns(s)
  \/ \E s \in Sessions : CreateCommentReturns(s)
  \/ \E s \in Sessions : CreateAuditLogReturns(s)
  \/ \E p \in Posts : ReturnToReview(p)

Spec == Init /\ [][Next]_vars

\* ------------------------------------------------- PostApproval: rendering
\* The provider's session is s1; its PostApproval instance shows post p1.
Shown == "p1"
Viewer == "s1"

\* mutant: the buttons are rendered whatever the post's status
RenderedIgnoresStatus ==
  IF view.status # "sent_to_client" /\ ~isClient THEN "null"
  ELSE IF view.approval_status = "approved" THEN "Approved"
  ELSE IF view.approval_status = "changes_requested" THEN "Changes Requested"
  ELSE IF ~canApprove(PostWorkspace(Shown)) THEN "null"
  ELSE "buttons"

\* what PostApproval returns for its post prop: nothing, one of the two
\* read-only panels, or the panel with the Approve / Request Changes buttons
Rendered ==
  IF view.status # "sent_to_client" /\ ~isClient THEN "null"
  ELSE IF view.approval_status = "approved" THEN "Approved"
  ELSE IF view.approval_status = "changes_requested" THEN "Changes Requested"
  ELSE IF ~canApprove(PostWorkspace(Shown)) \/ view.status # "sent_to_client" THEN "null"
  ELSE "buttons"

\* the ["posts"] query is fetched again and the post prop is replaced
Refetch ==
  /\ view # posts[Shown]
  /\ view' = posts[Shown]
  /\ UNCHANGED <<authVars, evaluated, approvalVars, listingVars>>

\* onClick={handleApprove} of the Approve button
ClickApprove ==
  /\ Rendered = "buttons"
  /\ handleApprove(Viewer, Shown)

\* onClick={handleRequestChanges} of the dialog the Request Changes button opens
ClickSubmitRequest(reason) ==
  /\ Rendered = "buttons"
  /\ handleRequestChanges(Viewer, Shown, reason)

\* The provider has loaded the account of s1 and the page has fetched p1.
InitRendering ==
  /\ acct \in [Sessions -> Users]
  /\ user = acct[Viewer]
  /\ profile = ProfilesTable[user]
  /\ memberships = WorkspaceMembersTable[user]
  /\ loading = FALSE
  /\ LoaderIdle
  /\ evaluated = Null
  /\ posts \in {f \in [Posts -> PostRows] : \A p \in Posts \ {Shown} : f[p].status = "draft"}
  /\ audit_logs = << >>
  /\ comments = << >>
  /\ now = 0
  /\ sess = [s \in Sessions |-> SessIdle]
  /\ calls = 0
  /\ returns = [p \in Posts |-> 0]
  /\ page = "none"
  /\ allAccounts = << >>
  /\ allPosts = << >>
  /\ selected = Null
  /\ listed = Null
  /\ view = posts[Shown]

\* s1 acts through what is rendered; another session acts on the same post
NextRendering ==
  \/ Refetch
  \/ ClickApprove
  \/ \E reason \in Reasons : ClickSubmitRequest(reason)
  \/ \E s \in Sessions \ {Viewer} : handleApprove(s, Shown)
  \/ \E s \in Sessions \ {Viewer}, reason \in Reasons : handleRequestChanges(s, Shown, reason)
  \/ \E s \in Sessions : ApprovePostReturns(s)
  \/ \E s \in Sessions : CreateCommentReturns(s)
  \/ \E s \in Sessions : CreateAuditLogReturns(s)
  \/ ReturnToReview(Shown)

SpecRendering == InitRendering /\ [][NextRendering]_vars

\* ------------------------------------------------ Calendar and FeedPreview
\* Both pages read social_accounts and posts with useQuery under the same
\* query keys ["accounts"] and ["posts"], then narrow them with useMemo.
Pages == {"Calendar", "FeedPreview"}
Platforms == {"instagram", "facebook"}
ListedWorkspaces == {"w1", "w2"}
ListingCallers == {"admin", "approver"}

\* JavaScript null for posts.social_account_id
NoAccount == "none"

\* public.social_accounts, in created_at order
SocialAccountsTable ==
  << [id |-> "a1", workspace_id |-> "w1", platform |-> "instagram"],
     [id |-> "a2", workspace_id |-> "w2", platform |-> "facebook"] >>

AccountIds == {SocialAccountsTable[i].id : i \in 1..Len(SocialAccountsTable)}

\* mutant: the store returns every row to every caller
RlsVisibleToAll(u, row) == TRUE

\* The store's row-level authorization: a row is returned to account u when
\* u is admin or a member of the row's workspace.
RlsVisible(u, row) ==
  \/ ProfilesTable[u].role = "admin"
  \/ \E i \in 1..Len(WorkspaceMembersTable[u]) :
        WorkspaceMembersTable[u][i].workspace_id = row.workspace_id

\* supabase.from("social_accounts").select(...).order("created_at"), as u
AccountsQuery(u) ==
  LET Visible(a) == RlsVisible(u, a)
  IN SelectSeq(SocialAccountsTable, Visible)

\* The columns of a posts row each page's filter reads; the columns the page
\* does not read carry one value.
PostColumns(pg) ==
  IF pg = "Calendar"
  THEN [workspace_id : ListedWorkspaces, social_account_id : AccountIds \cup {NoAccount},
        platform : Platforms, status : {"draft"}, order_index : {1}]
  ELSE [workspace_id : ListedWorkspaces, social_account_id : AccountIds \cup {NoAccount},
        platform : {"instagram"}, status : {"draft", "posted"}, order_index : 1..2]

\* row number i of a query result: its id is its position in the result
PostRow(i, c) ==
  [id |-> i, workspace_id |-> c.workspace_id, social_account_id |-> c.social_account_id,
   platform |-> c.platform, status |-> c.status, order_index |-> c.order_index]

\* supabase.from("posts").select(...), as u: any rows the store returns to u.
\* Under the key ["posts"] FeedPreview also receives the rows Calendar
\* fetched, ordered by scheduled_date first, so their order is any order.
PostsQuery(pg, u) ==
  UNION {{[i \in 1..n |-> PostRow(i, f[i])] :
            f \in [1..n -> {c \in PostColumns(pg) : RlsVisible(u, c)}]}
         : n \in 0..MaxPosts}

\* useState("all") x 3 in Calendar; selectedPlatform starts at "instagram" in
\* FeedPreview
InitialSelection(pg) ==
  [workspace |-> "all",
   platform |-> IF pg = "Calendar" THEN "all" ELSE "instagram",
   account |-> "all"]

\* the ids of a list of accounts: new Set(filteredAccounts.map((a) => a.id))
IdsOf(accs) == {accs[i].id : i \in 1..Len(accs)}

\* Calendar: filteredAccounts
CalendarFilteredAccounts(sel) ==
  LET InWorkspace(a) == sel.workspace = "all" \/ a.workspace_id = sel.workspace
      OnPlatform(a) == sel.platform = "all" \/ a.platform = sel.platform
  IN SelectSeq(SelectSeq(allAccounts, InWorkspace), OnPlatform)

\* Calendar: posts
CalendarPosts(sel) ==
  LET accountIds == IdsOf(CalendarFilteredAccounts(sel))
      Available(p) == IF p.social_account_id # NoAccount
                      THEN p.social_account_id \in accountIds ELSE TRUE
      InWorkspace(p) == sel.workspace = "all" \/ p.workspace_id = sel.workspace
      OnPlatform(p) == sel.platform = "all" \/ p.platform = sel.platform
      OfAccount(p) == sel.account = "all" \/ p.social_account_id = sel.account
  IN SelectSeq(SelectSeq(SelectSeq(SelectSeq(allPosts, Available),
                                   InWorkspace), OnPlatform), OfAccount)

\* FeedPreview: filteredAccounts
FeedPreviewFilteredAccounts(sel) ==
  LET InWorkspace(a) == sel.workspace = "all" \/ a.workspace_id = sel.workspace
      OnPlatform(a) == a.platform = sel.platform
  IN SelectSeq(SelectSeq(allAccounts, InWorkspace), OnPlatform)

\* (a.order_index || 0): a number is its own value
OrderKey(p) == p.order_index

\* Array.prototype.sort with (a, b) => key(a) - key(b): stable, ascending
RECURSIVE SortByOrderIndex(_)
SortByOrderIndex(rows) ==
  IF rows = << >> THEN << >>
  ELSE LET last == rows[Len(rows)]
           front == SortByOrderIndex(SubSeq(rows, 1, Len(rows) - 1))
           k == Cardinality({i \in 1..Len(front) : OrderKey(front[i]) <= OrderKey(last)})
       IN SubSeq(front, 1, k) \o << last >> \o SubSeq(front, k + 1, Len(front))

\* FeedPreview: posts
FeedPreviewPosts(sel) ==
  LET accountIds == IdsOf(FeedPreviewFilteredAccounts(sel))
      NotPosted(p) == p.status # "posted"
      InWorkspace(p) == sel.workspace = "all" \/ p.workspace_id = sel.workspace
      OfAccount(p) == IF sel.account # "all"
                      THEN p.social_account_id = sel.account
                      ELSE IF p.social_account_id # NoAccount
                           THEN p.social_account_id \in accountIds ELSE FALSE
  IN SortByOrderIndex(SelectSeq(SelectSeq(SelectSeq(allPosts, NotPosted),
                                          InWorkspace), OfAccount))

\* what the mounted page renders for selection sel
Listing(sel) ==
  IF page = "Calendar"
  THEN [accounts |-> CalendarFilteredAccounts(sel), posts |-> CalendarPosts(sel)]
  ELSE [accounts |-> FeedPreviewFilteredAccounts(sel), posts |-> FeedPreviewPosts(sel)]

\* the page re-renders with a new selection
Render(sel) ==
  /\ selected' = sel
  /\ listed' = Listing(sel)
  /\ UNCHANGED <<page, allAccounts, allPosts, view, authVars, evaluated, approvalVars>>

\* the workspace Select, rendered for admins only: onValueChange
SelectWorkspace(v) ==
  /\ isAdmin
  /\ Render([selected EXCEPT !.workspace = v, !.account = "all"])

\* the platform Select (Calendar) / Tabs (FeedPreview): onValueChange
SelectPlatform(v) ==
  /\ page = "FeedPreview" => v # "all"
  /\ Render([selected EXCEPT !.platform = v, !.account = "all"])

\* the account Select, its items are "all" and the filtered accounts
SelectAccount(v) ==
  /\ v = "all" \/ v \in IdsOf(listed.accounts)
  /\ Render([selected EXCEPT !.account = v])

\* A signed-in account opens one of the pages; both queries have settled:
\* the accounts query with rows, or with an error (data stays []).
InitListing ==
  /\ user \in ListingCallers
  /\ profile = ProfilesTable[user]
  /\ memberships = WorkspaceMembersTable[user]
  /\ loading = FALSE
  /\ LoaderIdle
  /\ evaluated = Null
  /\ ApprovalIdle
  /\ page \in Pages
  /\ allAccounts \in {AccountsQuery(user), << >>}
  /\ allPosts \in PostsQuery(page, user)
  /\ selected = InitialSelection(page)
  /\ listed = Listing(selected)
  /\ view = Null

NextListing ==
  \/ \E v \in {"all"} \cup Workspaces : SelectWorkspace(v)
  \/ \E v \in {"all"} \cup Platforms : SelectPlatform(v)
  \/ \E v \in {"all"} \cup AccountIds : SelectAccount(v)

SpecListing == InitListing /\ [][NextListing]_vars

\* =================================================================== claims
\* the workspaces in which the held memberships carry role client_approver
ApproverWorkspaces ==
  {memberships[i].workspace_id : i \in {j \in 1..Len(memberships) :
                                          memberships[j].role = "client_approver"}}

\* C1 (as claimed): for a non-admin account whose only client_approver
\* membership is in workspace w1, canApprove is true for w1 and false for
\* every other workspace, whatever other memberships it holds there.
C1_CanApproveWorkspaceScoped ==
  (evaluated # Null /\ ~isAdmin /\ Cardinality(ApproverWorkspaces) = 1)
     => (evaluated.canApprove <=> evaluated.workspace \in ApproverWorkspaces)

\* the rows of audit_logs for post p with the given action
AuditRowsFor(p, action) ==
  {i \in 1..Len(audit_logs) :
     /\ audit_logs[i].entity_type = "post"
     /\ audit_logs[i].entity_id = p
     /\ audit_logs[i].action = action}

\* C2 (as claimed): in no reachable state, the states between the remote
\* calls of a handler included, is a post approved while audit_logs holds
\* no 'approved' row for it.
C2_ApprovalAtomic ==
  \A p \in Posts :
     posts[p].approval_status = "approved" => AuditRowsFor(p, "approved") # {}

\* a call of session s that reached approve_post and got its decision
Decided(s) == sess[s].rpcResult \notin {"none", "WriteError"}

Authorized(s) == ServerCanApprove(acct[s], PostWorkspace(sess[s].post))

\* sessions s and t submitted verdicts on the same post while it was in
\* sent_to_client, both calls were decided in the same review cycle
Raced(s, t) ==
  /\ s # t
  /\ Decided(s) /\ Decided(t)
  /\ sess[s].post = sess[t].post
  /\ Authorized(s) /\ Authorized(t)
  /\ sess[s].statusAtStart = "sent_to_client"
  /\ sess[t].statusAtStart = "sent_to_client"
  /\ sess[s].round = sess[t].round

Verdict(s) ==
  IF sess[s].handler = "handleApprove" THEN "approved" ELSE "changes_requested"

ViewerOnlyIn(u, w) ==
  /\ ProfilesTable[u].role # "admin"
  /\ \E i \in 1..Len(WorkspaceMembersTable[u]) :
        WorkspaceMembersTable[u][i].workspace_id = w
  /\ \A i \in 1..Len(WorkspaceMembersTable[u]) :
        WorkspaceMembersTable[u][i].workspace_id = w
           => WorkspaceMembersTable[u][i].role = "client_viewer"

ViewerApproves(r, u) ==
  /\ r.handler = "handleApprove"
  /\ ViewerOnlyIn(u, PostWorkspace(r.post))

\* C4: Approve invoked by a non-admin account whose only membership in the
\* post's workspace is client_viewer fails with Unauthorized (unless the call
\* is lost in transport), no step of that call changes the post rows, and it
\* inserts no audit row; also for an approver of another workspace.
C4_UnauthorizedApprove ==
  /\ [](\A s \in Sessions :
          ViewerApproves(sess[s], acct[s]) =>
             /\ sess[s].rpcResult \in {"none", "Unauthorized", "WriteError"}
             /\ sess[s].result \in {"none", "Unauthorized", "WriteError"}
             /\ sess[s].pc \in {"rpc", "done"}
             /\ sess[s].audits = << >>)
  /\ [][\A s \in Sessions :
          (sess'[s] # sess[s] /\ ViewerApproves(sess'[s], acct[s]))
             => UNCHANGED <<posts, audit_logs>>]_vars

C4_Witness ==
  \E s \in Sessions :
     /\ ViewerApproves(sess[s], acct[s])
     /\ ServerCanApprove(acct[s], "w2")
     /\ posts[sess[s].post].status = "sent_to_client"
     /\ sess[s].pc = "done" /\ sess[s].result = "Unauthorized"

\* a finished call that no transport failure cut short
Completed(s) == sess[s].pc = "done" /\ sess[s].result # "WriteError"

\* C5: Approve by an authorized account on a post in sent_to_client succeeds:
\* approve_post commits approval_status = approved (which stands until the
\* post is returned for review), and the completed call has inserted exactly
\* one audit row, with action approved and approved_by in its details, and
\* no comment.
C5_ApproveEffect ==
  \A s \in Sessions :
     (/\ sess[s].handler = "handleApprove"
      /\ Decided(s) /\ Authorized(s)
      /\ sess[s].statusAtRpc = "sent_to_client") =>
        /\ sess[s].rpcResult = "ok"
        /\ returns[sess[s].post] = sess[s].round =>
              /\ posts[sess[s].post].approval_status = "approved"
              /\ posts[sess[s].post].approved_by = Email(acct[s])
        /\ sess[s].commentsWritten = << >>
        /\ Completed(s) =>
              /\ sess[s].result = "ok"
              /\ Len(sess[s].audits) = 1
              /\ sess[s].audits[1].action = "approved"
              /\ sess[s].audits[1].entity_id = sess[s].post
              /\ "approved_by" \in DOMAIN sess[s].audits[1].details
              /\ sess[s].audits[1].details.approved_by = Email(acct[s])
              /\ \E i \in AuditRowsFor(sess[s].post, "approved") :
                    audit_logs[i] = sess[s].audits[1]

C5_Witness ==
  \E s \in Sessions :
     /\ sess[s].handler = "handleApprove"
     /\ Authorized(s) /\ sess[s].statusAtRpc = "sent_to_client"
     /\ sess[s].pc = "done" /\ sess[s].result = "ok"
     /\ comments = << >> /\ Len(audit_logs) = 1

\* C6: Request changes by an authorized account on a post in sent_to_client
\* commits approval_status = changes_requested, and the completed call has
\* inserted exactly one audit row with action changes_requested; with a
\* non-empty reason it has inserted exactly one comment, "Changes requested:
\* <reason>" and not internal, with an empty reason none.
C6_RequestChangesEffect ==
  \A s \in Sessions :
     (/\ sess[s].handler = "handleRequestChanges"
      /\ Decided(s) /\ Authorized(s)
      /\ sess[s].statusAtRpc = "sent_to_client") =>
        /\ sess[s].rpcResult = "ok"
        /\ returns[sess[s].post] = sess[s].round =>
              posts[sess[s].post].approval_status = "changes_requested"
        /\ Completed(s) =>
              /\ sess[s].result = "ok"
              /\ Len(sess[s].audits) = 1
              /\ sess[s].audits[1].action = "changes_requested"
              /\ sess[s].audits[1].entity_id = sess[s].post
              /\ IF sess[s].rejectReason = ""
                 THEN sess[s].commentsWritten = << >>
                 ELSE /\ Len(sess[s].commentsWritten) = 1
                      /\ sess[s].commentsWritten[1].post_id = sess[s].post
                      /\ sess[s].commentsWritten[1].content =
                            "Changes requested: " \o sess[s].rejectReason
                      /\ sess[s].commentsWritten[1].is_internal = FALSE
                      /\ \E i \in 1..Len(comments) :
                            comments[i] = sess[s].commentsWritten[1]

C6_Witness ==
  \E s, t \in Sessions :
     /\ s # t
     /\ sess[s].handler = "handleRequestChanges" /\ sess[s].result = "ok"
     /\ sess[s].rejectReason = "fix the caption" /\ Len(sess[s].commentsWritten) = 1
     /\ sess[t].handler = "handleRequestChanges" /\ sess[t].result = "ok"
     /\ sess[t].rejectReason = "" /\ sess[t].commentsWritten = << >>

\* C7: Approve or Request changes on a post whose status is not
\* sent_to_client fails (with InvalidState for an authorized caller whose
\* call reached the store), the failing call changes neither the post rows
\* nor audit_logs nor comments, and the handler inserts nothing afterwards.
C7_InvalidStateGuard ==
  /\ [](\A s \in Sessions :
          (sess[s].rpcResult # "none" /\ sess[s].statusAtRpc # "sent_to_client") =>
             /\ sess[s].rpcResult \in {"InvalidState", "Unauthorized", "WriteError"}
             /\ (Authorized(s) /\ Decided(s)) => sess[s].rpcResult = "InvalidState"
             /\ sess[s].pc = "done" /\ sess[s].result = sess[s].rpcResult
             /\ sess[s].audits = << >> /\ sess[s].commentsWritten = << >>)
  /\ [][\A s \in Sessions :
          (sess[s].pc = "rpc" /\ sess'[s].pc # "rpc"
             /\ posts[sess[s].post].status # "sent_to_client")
             => UNCHANGED <<posts, audit_logs, comments>>]_vars

C7_Witness ==
  \E s, t \in Sessions :
     /\ sess[s].handler = "handleApprove" /\ sess[s].result = "ok"
     /\ sess[t].handler = "handleRequestChanges" /\ sess[t].result = "InvalidState"
     /\ sess[t].post = sess[s].post /\ sess[t].statusAtRpc = "approved"
     /\ posts[sess[t].post].approval_status = "approved"
     /\ comments = << >> /\ Len(audit_logs) = 1

\* an authorized Approve that reached the store when the post was already approved
Reapproved(s) ==
  /\ sess[s].handler = "handleApprove"
  /\ Decided(s) /\ Authorized(s)
  /\ sess[s].approvalAtRpc = "approved"

ReapproveEffect(s) ==
  /\ sess[s].rpcResult = "ok"
  /\ returns[sess[s].post] = sess[s].round =>
        posts[sess[s].post].approval_status = "approved"
  /\ Completed(s) => sess[s].result = "ok" /\ Len(sess[s].audits) = 1

C10_CommentFailureKeepsVerdict ==
  \A s \in Sessions :
     (sess[s].commentFailed /\ sess[s].pc = "done") =>
        /\ sess[s].rpcResult = "ok"
        /\ returns[sess[s].post] = sess[s].round =>
              posts[sess[s].post].approval_status = "changes_requested"
        /\ Len(sess[s].audits) = 1
        /\ AuditRowsFor(sess[s].post, "changes_requested") # {}

\* C9 (as claimed): whenever the provider is mounted and loading is false,
\* the held profile and memberships are rows of the held user, never rows
\* loaded for an earlier identity.
C9_NoStaleCapabilities ==
  (mounted /\ ~loading) =>
     /\ profile # Null => profile.id = user
     /\ \A i \in 1..Len(memberships) : memberships[i].user_id = user

\* C11: every audit row and every comment written by Approve or Request
\* changes carries the workspace of the post it is about and that post's id:
\* in the store's tables, and call by call for the post the handler was
\* invoked on.
C11_NoCrossWorkspaceLeakage ==
  /\ \A i \in 1..Len(audit_logs) :
        /\ audit_logs[i].entity_type = "post"
        /\ audit_logs[i].entity_id \in Posts
        /\ audit_logs[i].workspace_id = PostWorkspace(audit_logs[i].entity_id)
  /\ \A i \in 1..Len(comments) :
        /\ comments[i].post_id \in Posts
        /\ comments[i].workspace_id = PostWorkspace(comments[i].post_id)
  /\ \A s \in Sessions :
        /\ \A i \in 1..Len(sess[s].audits) :
              /\ sess[s].audits[i].entity_id = sess[s].post
              /\ sess[s].audits[i].workspace_id = PostWorkspace(sess[s].post)
        /\ \A i \in 1..Len(sess[s].commentsWritten) :
              /\ sess[s].commentsWritten[i].post_id = sess[s].post
              /\ sess[s].commentsWritten[i].workspace_id = PostWorkspace(sess[s].post)

C11_Witness ==
  /\ \E i, j \in 1..Len(audit_logs) :
        /\ audit_logs[i].entity_id = "p1" /\ audit_logs[i].workspace_id = "w1"
        /\ audit_logs[j].entity_id = "p2" /\ audit_logs[j].workspace_id = "w2"
  /\ \E i \in 1..Len(comments) :
        comments[i].post_id = "p2" /\ comments[i].workspace_id = "w2"

\* the input profile row carries the admin role
ProfileIsAdmin == profile # Null /\ profile.role = "admin"

\* the workspaces the input membership rows reference
MemberWorkspaces == {memberships[i].workspace_id : i \in 1..Len(memberships)}

\* the roles the input membership rows carry
MemberRoles == {memberships[i].role : i \in 1..Len(memberships)}

\* C12: for an account whose global role is admin, canApprove is true for
\* every workspace asked about, whatever membership rows it has (none, or
\* rows of any roles), in both forms of the helper.
C12_AdminCanApproveEverywhere ==
  (evaluated # Null /\ ProfileIsAdmin) =>
     /\ evaluated.canApprove
     /\ evaluated.canApproveByUserRole

C12_Witness ==
  /\ evaluated # Null /\ ProfileIsAdmin
  /\ memberships = << >>
  /\ evaluated.workspace = "w3"
  /\ evaluated.canApprove /\ evaluated.canApproveByUserRole

\* C13: hasAccessToWorkspace(w) is true iff the account is admin or one of
\* its membership rows references w; a non-admin account with no membership
\* rows gets false for every workspace.
C13_HasAccessToWorkspace ==
  evaluated # Null =>
     /\ evaluated.hasAccessToWorkspace <=>
           (ProfileIsAdmin \/ evaluated.workspace \in MemberWorkspaces)
     /\ (~ProfileIsAdmin /\ memberships = << >>) => ~evaluated.hasAccessToWorkspace

C13_Witness ==
  /\ evaluated # Null /\ ~ProfileIsAdmin
  /\ MemberWorkspaces = {"w1", "w2"}
  /\ evaluated.workspace = "w3"
  /\ ~evaluated.hasAccessToWorkspace

\* C14 (as claimed): isClient() is true iff some membership row has role
\* client_viewer or client_approver, whatever the global role and whatever
\* account_manager rows the account also holds, in both forms of the helper.
C14_IsClientByMembership ==
  evaluated # Null =>
     /\ evaluated.isClient <=>
           (MemberRoles \cap {"client_viewer", "client_approver"} # {})
     /\ evaluated.isClientByUserRole <=>
           (MemberRoles \cap {"client_viewer", "client_approver"} # {})

\* C15: isAdmin() is true iff a profile row is held and its role is admin;
\* with no profile row it is false whatever the membership rows, in both
\* forms of the helper.
C15_IsAdminByProfile ==
  evaluated # Null =>
     /\ evaluated.isAdmin <=> ProfileIsAdmin
     /\ evaluated.isAdminByUserRole <=> ProfileIsAdmin
     /\ profile = Null => (~evaluated.isAdmin /\ ~evaluated.isAdminByUserRole)

C15_Witness ==
  /\ evaluated # Null /\ profile = Null
  /\ "client_approver" \in MemberRoles /\ "account_manager" \in MemberRoles
  /\ ~evaluated.isAdmin /\ ~evaluated.isAdminByUserRole

\* the rows of a list
RowsOf(rows) == {rows[i] : i \in 1..Len(rows)}

\* the selection with the workspace and account selectors back at "all"
Unselected == [selected EXCEPT !.workspace = "all", !.account = "all"]

MatchesSelection(p) ==
  /\ selected.workspace # "all" => p.workspace_id = selected.workspace
  /\ selected.platform # "all" => p.platform = selected.platform
  /\ selected.account # "all" => p.social_account_id = selected.account

\* C17 (as claimed): in the Calendar listing every listed post matches each
\* selector that is set, every post of the query result that matches all set
\* selectors is listed, and with all selectors at "all" the listing equals
\* the query result.
C17_CalendarStrictEquality ==
  page = "Calendar" =>
     /\ \A p \in RowsOf(listed.posts) : MatchesSelection(p)
     /\ \A p \in RowsOf(allPosts) : MatchesSelection(p) => p \in RowsOf(listed.posts)
     /\ selected = InitialSelection("Calendar") => listed.posts = allPosts

\* C18 (as claimed): the posts a page lists are rows of the query result in
\* the order the query result has them (a row's id is its position there).
C18_StableFilter ==
  /\ RowsOf(listed.posts) \subseteq RowsOf(allPosts)
  /\ \A i, j \in 1..Len(listed.posts) :
        i < j => listed.posts[i].id < listed.posts[j].id

Verdicts == {"approved", "changes_requested"}

\* C19 (as claimed): the buttons are rendered only for a post prop in
\* sent_to_client and never for one that carries a verdict, and a call made
\* through them never fails the status check of approve_post.
C19_ButtonsNeverFail ==
  /\ Rendered = "buttons" =>
        /\ view.status = "sent_to_client"
        /\ view.approval_status \notin Verdicts
  /\ sess[Viewer].rpcResult # "InvalidState"

\* C19 (amended): the buttons are rendered only for a post prop in
\* sent_to_client that carries no verdict, and only to an account for which
\* canApprove() is true; a post prop with a verdict renders its read-only
\* panel or nothing; and while the post prop is the store's current row,
\* rendered buttons mean the post is in sent_to_client in the store, so a
\* call served then does not fail with InvalidState.
C19_ButtonsMirrorView ==
  /\ Rendered = "buttons" =>
        /\ view.status = "sent_to_client"
        /\ view.approval_status \notin Verdicts
        /\ canApprove(PostWorkspace(Shown))
  /\ view.approval_status \in Verdicts =>
        Rendered = (IF view.status # "sent_to_client" /\ ~isClient THEN "null"
                    ELSE IF view.approval_status = "approved" THEN "Approved"
                    ELSE "Changes Requested")
  /\ (Rendered = "buttons" /\ view = posts[Shown]) =>
        /\ posts[Shown].status = "sent_to_client"
        /\ ApprovePostError(acct[Viewer], Shown) # "InvalidState"
  /\ (sess[Viewer].rpcResult = "InvalidState") =>
        sess[Viewer].statusAtRpc # "sent_to_client"

C19_Witness ==
  /\ sess[Viewer].handler = "handleApprove" /\ sess[Viewer].result = "ok"
  /\ sess[Viewer].statusAtRpc = "sent_to_client"
  /\ view = posts[Shown] /\ Rendered = "Approved"

\* C20: no step of any sequence of approval operations, successful or
\* failed, modifies or removes an audit row: the log never gets shorter and
\* the rows it held stay where they were, in the same order.
C20_AuditAppendOnly ==
  [][/\ Len(audit_logs') >= Len(audit_logs)
     /\ SubSeq(audit_logs', 1, Len(audit_logs)) = audit_logs]_vars

C20_Witness ==
  /\ Len(audit_logs) = 2
  /\ audit_logs[1].entity_id = audit_logs[2].entity_id
  /\ audit_logs[1].action = "approved" /\ audit_logs[2].action = "changes_requested"
  /\ \E s \in Sessions : sess[s].pc = "done" /\ sess[s].result = "ok"

\* the approval fields of post p
ApprovalFields(row) == <<row.approval_status, row.approved_by, row.approved_at>>

\* C21: a step changes the approval_status, approved_by or approved_at of a
\* post only when it is the approve_post call of a handler invoked on that
\* post answering without error; comment inserts, audit inserts, failed
\* calls and the return of a post to review leave the three fields alone.
C21_ApprovalFieldsFrame ==
  [][\A p \in Posts :
       ApprovalFields(posts'[p]) # ApprovalFields(posts[p]) =>
          \E s \in Sessions :
             /\ sess[s].pc = "rpc" /\ sess[s].post = p
             /\ sess'[s].pc # "rpc" /\ sess'[s].rpcResult = "ok"]_vars

C21_Witness ==
  \E s \in Sessions :
     /\ sess[s].handler = "handleRequestChanges"
     /\ sess[s].pc = "done" /\ sess[s].result = "ok"
     /\ Len(sess[s].commentsWritten) = 1 /\ Len(sess[s].audits) = 1
     /\ posts[sess[s].post].approval_status = "changes_requested"
     /\ posts[sess[s].post].approved_by = "none"
     /\ returns[sess[s].post] = 1

\* C22: when the profiles query of a reload answers with an error the held
\* profile becomes null, so isAdmin() is false; when its workspace_members
\* query answers with an error the held memberships become the empty list;
\* and the reload still runs to its end, where it sets loading to false.
C22_ReadFailuresDegrade ==
  [][\A l \in 1..Len(loads) :
       /\ (loads[l].profileError = "pending" /\ loads'[l].profileError = "yes") =>
             /\ profile' = Null
             /\ ~isAdmin'
             /\ loads'[l].pc = "members"
       /\ (loads[l].membersError = "pending" /\ loads'[l].membersError = "yes") =>
             /\ memberships' = << >>
             /\ ~isClient'
             /\ loading' = FALSE
             /\ loads'[l].pc = "done"
       /\ (Len(loads') = 1 /\ loads'[l].pc = "done" /\ loads'[l].membersError # "pending") =>
             /\ ~loading'
             /\ loads'[l].profileError = "yes" => (profile' = Null /\ ~isAdmin')
             /\ loads'[l].membersError = "yes" => memberships' = << >>]_vars

C22_Witness ==
  /\ idp = "admin" /\ user = "admin" /\ mounted
  /\ Len(loads) = 1 /\ loads[1].pc = "done"
  /\ loads[1].profileError = "yes" /\ loads[1].membersError = "yes"
  /\ profile = Null /\ memberships = << >> /\ ~loading

\* refresh() was the one call made, and it has run to its end with no
\* query error
SoleRefreshDone ==
  /\ Len(loads) = 1
  /\ loads[1].kind = "refresh"
  /\ loads[1].pc = "done"
  /\ loads[1].profileError # "yes" /\ loads[1].membersError # "yes"

\* C23 (as claimed): once refresh() has completed (called at rest, with no
\* other reload about and no query of it failing) the held profile and memberships are
\* the store's current rows of the current session user.
C23_RefreshRefetches ==
  (SoleRefreshDone /\ events = 0 /\ mounted) =>
     /\ user = idp
     /\ IF user = NoUser
        THEN profile = Null /\ memberships = << >>
        ELSE profile = ProfilesTable[user] /\ memberships = WorkspaceMembersTable[user]

\* C24 (as claimed): whenever nobody is signed in and the provider is not
\* loading, the profile is null and the memberships are empty, so the four
\* capability helpers answer false, also when a reload of the previous user
\* was in flight at sign-out.
C24_SignedOutHoldsNothing ==
  (mounted /\ user = NoUser /\ ~loading) =>
     /\ profile = Null
     /\ memberships = << >>
     /\ ~isAdmin /\ ~isClient
     /\ \A w \in Workspaces : ~canApprove(w) /\ ~hasAccessToWorkspace(w)

\* C25 (as claimed): every reload comes to an end that leaves loading =
\* false while the provider is mounted, whatever the identity call and the
\* two queries answer (rows, an error result, or a rejected promise): once
\* no reload is in flight any more, the provider is not loading.
C25_ReloadsSettle ==
  (mounted /\ \A l \in 1..Len(loads) : loads[l].pc \in {"done", "rejected"}) => ~loading

\* C26: when the approve_post call fails, for whatever reason (Unauthorized,
\* InvalidState, or a transport failure), the handler ends at that await with
\* the error: it writes no audit row and no comment and shows no success
\* notification, and the failing step leaves both tables as they were.
C26_FailedRpcStopsHandler ==
  /\ [](\A s \in Sessions :
          sess[s].rpcResult \notin {"none", "ok"} =>
             /\ sess[s].pc = "done"
             /\ sess[s].result = sess[s].rpcResult
             /\ sess[s].audits = << >>
             /\ sess[s].commentsWritten = << >>
             /\ sess[s].toasts = << >>)
  /\ [][\A s \in Sessions :
          (sess[s].pc = "rpc" /\ sess'[s].rpcResult \notin {"none", "ok"}) =>
             /\ audit_logs' = audit_logs
             /\ comments' = comments
             /\ posts' = posts]_vars

C26_Witness ==
  \E s \in Sessions :
     /\ sess[s].handler = "handleRequestChanges"
     /\ CommentWanted(sess[s].rejectReason)
     /\ sess[s].rpcResult = "WriteError"
     /\ sess[s].pc = "done"
     /\ sess[s].result = "WriteError"
     /\ sess[s].toasts = << >>
     /\ posts[sess[s].post].status = "sent_to_client"
     /\ \A i \in 1..Len(comments) : comments[i].post_id # sess[s].post
     /\ \A i \in 1..Len(audit_logs) : audit_logs[i].entity_id # sess[s].post

====
